---- MODULE Spec2Model ----
(***************************************************************************)
(* Droplet_approver: the approval client (run_approvals and the calls it   *)
(* makes, src/DL_contract_rate_land.py) and the rate reconciliation        *)
(* (build_rate_comps, src/rate_analysis12.5.py).                           *)
(*                                                                         *)
(* Text is a sequence of one-character strings, so that strip(), upper()   *)
(* and the numeric parse are computed, not assumed.  An empty spreadsheet  *)
(* cell is read by pandas as NaN: a cell is either NaN or text.            *)
(***************************************************************************)
EXTENDS Integers, Sequences, FiniteSets, TLC

(* ------------------------------ bounds -------------------------------- *)
\* longest Rate_Comps sheet the approval runs are given
MaxRows == 2

\* rate differences tried on decide_approval: every cent up to MaxCents cents
\* and every dollar up to MaxCents dollars either side of zero, and every
\* 0.00001 up to Fine steps either side of each threshold
MaxCents == 600
Fine == 3
\* longest contract sheet and longest invoice sheet given to build_rate_comps,
\* and the number of times it is run on one workbook
MaxContractRows == 2
MaxLines == 2
MaxRuns == 2

(* ------------------------- program constants -------------------------- *)
APPROVAL_CODE_DEFAULT == <<"5", "4", "4", "0", "-", "1", "0", "2", "1", "0", "0">>
CATEGORY_FALLBACK == <<"M", "A", "I", "N", "T", "E", "N", "A", "N", "C", "E">>

(* ------------------------------ text ---------------------------------- *)
\* a pandas cell: NaN (empty cell) or text
NaNCell == [nan |-> TRUE, s |-> <<>>]
Txt(s) == [nan |-> FALSE, s |-> s]

\* str.upper() on the letters the sheets use
UpperChar(c) ==
    CASE c = "a" -> "A" [] c = "d" -> "D" [] c = "e" -> "E" [] c = "i" -> "I"
      [] c = "n" -> "N" [] c = "o" -> "O" [] c = "p" -> "P" [] c = "r" -> "R"
      [] c = "v" -> "V" [] c = "w" -> "W" [] OTHER -> c

Upper(s) == [i \in 1..Len(s) |-> UpperChar(s[i])]

RECURSIVE LStrip(_)
LStrip(s) == IF s # <<>> /\ Head(s) = " " THEN LStrip(Tail(s)) ELSE s

RECURSIVE RStrip(_)
RStrip(s) ==
    IF s # <<>> /\ s[Len(s)] = " " THEN RStrip(SubSeq(s, 1, Len(s) - 1)) ELSE s

\* str.strip()
Strip(s) == RStrip(LStrip(s))

\* str(x) of a cell: NaN prints as "nan"
PyStr(cell) == IF cell.nan THEN <<"n", "a", "n">> ELSE cell.s

\* A cell on which (x or "").strip() raises AttributeError: NaN is a float,
\* it is truthy and has no strip().
OrEmptyRaises(cell) == cell.nan

\* (x or "") for a text cell
OrEmpty(cell) == cell.s

(* ----------------------------- numbers -------------------------------- *)
\* Amounts are fixed-point: Scale units to the dollar (five decimals).
Scale == 100 * 1000
Cent == Scale \div 100

\* a pandas number: NaN (missing) or a value
NaN == [nan |-> TRUE, v |-> 0]
Num(v) == [nan |-> FALSE, v |-> v]

Abs(x) == IF x < 0 THEN -x ELSE x

(* ------------------------- the inputs of a run ------------------------ *)
S_Approved == <<"A", "p", "p", "r", "o", "v", "e", "d">>
S_approved_padded == <<" ", "a", "p", "p", "r", "o", "v", "e", "d", " ">>
S_Review == <<"R", "e", "v", "i", "e", "w">>
S_APPROVED == <<"A", "P", "P", "R", "O", "V", "E", "D">>
S_Land == <<"L", "a", "n", "d">>
S_Repair == <<" ", "r", "e", "p", "a", "i", "r">>
S_WO1 == <<"1", "0", "1">>
S_WO1_padded == <<"1", "0", "1", " ">>
S_WO2 == <<"2", "0", "2">>
S_Blank == <<" ", " ">>

\* the columns of a Rate_Comps row that run_approvals reads
Row(status, wo, category, trade) ==
    [status |-> status, wo |-> wo, category |-> category, trade |-> trade]

\* representative rows of a Rate_Comps sheet
RowChoices ==
    { Row(Txt(S_Approved), Txt(S_WO1), Txt(S_Repair), Txt(S_Land)),
      Row(Txt(S_approved_padded), Txt(S_WO2), Txt(S_Blank), Txt(S_Land)),
      Row(Txt(S_Approved), Txt(S_WO1_padded), NaNCell, Txt(S_Land)),
      Row(Txt(S_Approved), Txt(S_Blank), Txt(S_Repair), Txt(S_Land)),
      Row(Txt(S_Approved), Txt(S_WO2), Txt(S_Repair), NaNCell),
      Row(Txt(S_Review), Txt(S_WO1), Txt(S_Repair), Txt(S_Land)),
      Row(NaNCell, Txt(S_WO2), NaNCell, NaNCell) }

Sheets == UNION { [1..n -> RowChoices] : n \in 0..MaxRows }

\* the workbook handed to run_approvals: a Rate_Comps sheet with the expected
\* columns, or one on which load_rate_comps raises
Workbooks ==
    { [ok |-> TRUE, rows |-> sh] : sh \in Sheets } \cup { [ok |-> FALSE, rows |-> <<>>] }

(* ----------------------- answers of the network ----------------------- *)
\* exc: requests raised a RequestException instead of returning a response
Resp(exc, status, body) == [exc |-> exc, status |-> status, body |-> body]
NoResp == Resp(FALSE, 0, "none")
NetErr == Resp(TRUE, 0, "none")

\* requests.Response.ok
Ok(r) == r.status < 400

TokenResponses ==
    { NetErr, Resp(FALSE, 200, "access_token"), Resp(FALSE, 200, "no_token"),
      Resp(FALSE, 500, "no_token") }

LookupResponses ==
    { NetErr, Resp(FALSE, 401, "none"), Resp(FALSE, 500, "none"),
      Resp(FALSE, 200, "found"), Resp(FALSE, 200, "found_nocode"),
      Resp(FALSE, 200, "empty"), Resp(FALSE, 200, "noid"),
      Resp(FALSE, 200, "notjson") }

ApproveResponses ==
    { NetErr, Resp(FALSE, 401, "none"), Resp(FALSE, 200, "none"),
      Resp(FALSE, 201, "none"), Resp(FALSE, 204, "none"),
      Resp(FALSE, 403, "already had this status"), Resp(FALSE, 403, "forbidden"),
      Resp(FALSE, 500, "already had this status"), Resp(FALSE, 500, "none") }

(* ------------------------------ state --------------------------------- *)
VARIABLES
    workbook,        \* the invoice workbook (input)
    gmail_address,   \* GMAIL_ADDRESS is set in the environment (input)
    pc,              \* where run_approvals is
    token_box,       \* serial number of the token held; 0: none
    approved_count, failed_count, review_count, error_text,
    to_approve,      \* indices of the rows of the sheet that are to be approved
    idx,             \* position in to_approve of the row being processed
    lookup_cache, successes, failures,
    meta,            \* the invoice metadata of the row being processed
    resp,            \* the last response of the call in progress
    token_resp,      \* the last answer of the token endpoint
    callReqs,        \* requests issued for the current row, by kind of call
    callFetches,     \* token fetches made for the current row, by kind of call
    tokenRequests,   \* calls of get_access_token in the run
    requested,       \* rows of the sheet for which a request was issued
    lookupCalls,     \* per work order key, the lookups that went to the network
    lastReq,         \* the last lookup or approve request issued
    outcomes,        \* the outcome of each processed row, in order
    emailCalls,      \* calls of send_status_email
    emailsOut,       \* summaries handed to the Gmail API
    reported,        \* the arguments of the last send_status_email call
    land_df,         \* build_rate_comps: the rows of the contract sheet (input)
    contracted_rate, \* build_rate_comps: land_df["Contracted Rate"], row by row
    wb_sheets,       \* build_rate_comps: the sheets of the invoice workbook
    rc_runs,         \* build_rate_comps: runs made on the workbook
    rc_error,        \* build_rate_comps: the last run raised
    d_in,            \* decide_approval: the rate difference it is given
    d_out,           \* decide_approval: what it returned
    walk_files,      \* find_invoice_csv: the files os.walk yields, in its order
    invoice_csv,     \* find_invoice_csv: the file it returned
    find_state,      \* find_invoice_csv: not called, returned, or what it raised
    main_pc,         \* main: the step of the pipeline it is at
    env              \* main: what the pipeline finds outside the program

vars ==
    << workbook, gmail_address, pc, token_box, approved_count, failed_count,
       review_count, error_text, to_approve, idx, lookup_cache, successes,
       failures, meta, resp, token_resp, callReqs, callFetches, tokenRequests,
       requested, lookupCalls, lastReq, outcomes, emailCalls, emailsOut, reported,
       land_df, contracted_rate, wb_sheets, rc_runs, rc_error, d_in, d_out,
       walk_files, invoice_csv, find_state, main_pc, env >>

rcVars == << land_df, contracted_rate, wb_sheets, rc_runs, rc_error >>
decideVars == << d_in, d_out >>
\* what run_approvals never writes: its inputs and the other programs' state
findVars == << walk_files, invoice_csv, find_state >>
mainVars == << main_pc, env >>
inputVars == << workbook, gmail_address, rcVars, decideVars, findVars, mainVars >>
countVars == << approved_count, failed_count, review_count >>
rowVars == << pc, idx, successes, failures, outcomes, error_text >>
tokenVars == << token_box, token_resp, callFetches, tokenRequests >>
netVars == << resp, callReqs, requested, lookupCalls, lastReq >>
mailVars == << emailCalls, emailsOut, reported >>

NoMeta == [found |-> FALSE, Id |-> 0, ApprovalCode |-> <<>>]
NoReq ==
    [kind |-> "none", row |-> 0, token |-> 0, key |-> <<>>, category |-> <<>>,
     code |-> <<>>]
NoCalls == [lookup |-> 0, approve |-> 0]
NoReport == [approved |-> 0, failed |-> 0, review |-> 0, error |-> FALSE]

(* --------------------------- pure helpers ----------------------------- *)
\* get_access_token: "token" when it returns one, else the exception it raises
get_access_token(t) ==
    IF t.exc THEN "RequestException"
    ELSE IF ~Ok(t) THEN "RuntimeError"
    ELSE IF t.body # "access_token" THEN "RuntimeError"
    ELSE "token"

\* every row treated as Approved
approved_mask_all(row) == Upper(Strip(PyStr(row.status))) # <<>>

\* get_or_refresh_token: the token of the box is used, and one is fetched only
\* when the box holds none
get_or_refresh_token(box) == IF box = 0 THEN "fetch" ELSE "held"

\* approved_mask of run_approvals, for one row
approved_mask(row) == Upper(Strip(PyStr(row.status))) = S_APPROVED

\* wo_key of lookup_invoice_by_wo, from str(wo_num)
wo_key_of(row) == Strip(PyStr(row.wo))

\* the rows of df selected by a mask, as indices into df, in order
RECURSIVE SelectRows(_, _, _)
SelectRows(rows, i, want) ==
    IF i > Len(rows) THEN <<>>
    ELSE IF approved_mask(rows[i]) = want
         THEN <<i>> \o SelectRows(rows, i + 1, want)
         ELSE SelectRows(rows, i + 1, want)

\* the parameters approve_invoice sends
code_to_use(approval_code) ==
    IF Strip(approval_code) # <<>> THEN Strip(approval_code) ELSE APPROVAL_CODE_DEFAULT

category_to_use(category) ==
    IF Upper(Strip(OrEmpty(category))) # <<>>
    THEN Upper(Strip(OrEmpty(category)))
    ELSE CATEGORY_FALLBACK

\* approve_invoice without the "already had this status" case
approve_result_no403(r) == r.status \in {200, 204}

\* what approve_invoice returns for a response that is not a 401
approve_result(r) ==
    IF r.status \in {200, 204} THEN TRUE
    ELSE IF r.status = 403 /\ r.body = "already had this status" THEN TRUE
    ELSE FALSE

\* the metadata lookup_invoice_by_wo builds from an OK response; found is
\* FALSE when it returns None
meta_of(r) ==
    IF r.body = "found"
    THEN [found |-> TRUE, Id |-> 7, ApprovalCode |-> <<" ", "X", "9">>]
    ELSE IF r.body = "found_nocode"
    THEN [found |-> TRUE, Id |-> 7, ApprovalCode |-> <<>>]
    ELSE NoMeta

CurRow == workbook.rows[to_approve[idx]]

(* --------------------- the ways a row or the run ends ----------------- *)
\* failures += 1; break
FailRow_stop ==
    /\ pc' = "finally"
    /\ idx' = idx + 1
    /\ failures' = failures + 1
    /\ outcomes' = Append(outcomes, "failed")
    /\ UNCHANGED << successes, error_text >>

\* run_approvals: failures += 1; continue
FailRow ==
    /\ pc' = "row"
    /\ idx' = idx + 1
    /\ failures' = failures + 1
    /\ outcomes' = Append(outcomes, "failed")
    /\ UNCHANGED << successes, error_text >>

\* an approved row is added to both counters
SucceedRow_both ==
    /\ pc' = "row"
    /\ idx' = idx + 1
    /\ successes' = successes + 1
    /\ failures' = failures + 1
    /\ outcomes' = Append(outcomes, "approved")
    /\ UNCHANGED error_text

\* run_approvals: successes += 1
SucceedRow ==
    /\ pc' = "row"
    /\ idx' = idx + 1
    /\ successes' = successes + 1
    /\ outcomes' = Append(outcomes, "approved")
    /\ UNCHANGED << failures, error_text >>

\* an exception leaves run_approvals without the finally block
Raise_exit ==
    /\ pc' = "done"
    /\ error_text' = TRUE
    /\ UNCHANGED << idx, successes, failures, outcomes >>

\* an exception reaches "except Exception" of run_approvals
Raise ==
    /\ pc' = "finally"
    /\ error_text' = TRUE
    /\ UNCHANGED << idx, successes, failures, outcomes >>

Goto(p) ==
    /\ pc' = p
    /\ UNCHANGED << idx, successes, failures, outcomes, error_text >>

\* the result of a lookup is not remembered
CachePut_forget(value) == lookup_cache' = lookup_cache

\* cache[wo_key] = value
CachePut(value) == lookup_cache' = (wo_key_of(CurRow) :> value) @@ lookup_cache

\* do_request: a request of the call in progress goes out for the current row,
\* with the token of the box (run_approvals filled the box before the loop, so
\* get_or_refresh_token fetches nothing here)
Issue(kind, r) ==
    /\ get_or_refresh_token(token_box) = "held"
    /\ resp' = r
    /\ callReqs' = [callReqs EXCEPT ![kind] = @ + 1]
    /\ requested' = requested \cup {to_approve[idx]}
    /\ lookupCalls' =
         IF kind = "lookup" /\ callReqs.lookup = 0
         THEN (wo_key_of(CurRow) :>
                 (IF wo_key_of(CurRow) \in DOMAIN lookupCalls
                  THEN lookupCalls[wo_key_of(CurRow)] + 1 ELSE 1)) @@ lookupCalls
         ELSE lookupCalls
    /\ lastReq' =
         [kind |-> kind, row |-> to_approve[idx], token |-> token_box,
          key |-> wo_key_of(CurRow),
          category |-> IF kind = "approve" THEN category_to_use(CurRow.category) ELSE <<>>,
          code |-> IF kind = "approve" THEN code_to_use(meta.ApprovalCode) ELSE <<>>]

\* token_box["access_token"] = get_access_token(), when it returns
FetchToken(t) ==
    /\ token_resp' = t
    /\ tokenRequests' = tokenRequests + 1
    /\ token_box' = IF get_access_token(t) = "token" THEN tokenRequests + 1 ELSE token_box

(* ------------------------------ run_approvals ------------------------- *)
\* run_approvals before its first statement
ApprovalStart ==
    /\ pc = "start"
    /\ token_box = 0
    /\ approved_count = 0
    /\ failed_count = 0
    /\ review_count = 0
    /\ error_text = FALSE
    /\ to_approve = <<>>
    /\ idx = 0
    /\ lookup_cache = <<>>
    /\ successes = 0
    /\ failures = 0
    /\ meta = NoMeta
    /\ resp = NoResp
    /\ token_resp = NoResp
    /\ callReqs = NoCalls
    /\ callFetches = NoCalls
    /\ tokenRequests = 0
    /\ requested = {}
    /\ lookupCalls = <<>>
    /\ lastReq = NoReq
    /\ outcomes = <<>>
    /\ emailCalls = 0
    /\ emailsOut = 0
    /\ reported = NoReport

\* build_rate_comps and decide_approval not in use
RateCompsIdle ==
    /\ land_df = <<>>
    /\ contracted_rate = <<>>
    /\ wb_sheets = <<>>
    /\ rc_runs = 0
    /\ rc_error = FALSE
DecideIdle == d_in = NaN /\ d_out = "none"
NoFile == [dir |-> "none", name |-> <<>>]
FindIdle == walk_files = <<>> /\ invoice_csv = NoFile /\ find_state = "idle"
NoEnv == [credentials |-> FALSE, smartsheet |-> FALSE, app_password |-> FALSE,
          extracted |-> FALSE]
MainIdle == main_pc = "idle" /\ env = NoEnv

Init ==
    /\ workbook \in Workbooks
    /\ gmail_address \in BOOLEAN
    /\ ApprovalStart
    /\ RateCompsIdle
    /\ DecideIdle
    /\ FindIdle
    /\ MainIdle

\* the run goes on to load the sheet without fetching a token
GetInitialToken_skip ==
    /\ pc = "start"
    /\ Goto("load")
    /\ UNCHANGED << inputVars, countVars, to_approve, lookup_cache, meta, netVars,
                    mailVars, tokenVars >>

\* token_box["access_token"] = get_access_token(), first statement of the try
GetInitialToken ==
    /\ pc = "start"
    /\ \E t \in TokenResponses :
         /\ FetchToken(t)
         /\ UNCHANGED callFetches
         /\ IF get_access_token(t) = "token" THEN Goto("load") ELSE Raise
    /\ UNCHANGED << inputVars, countVars, to_approve, lookup_cache, meta, netVars,
                    mailVars >>

\* load_rate_comps, the Approved / skipped split, and the early return
LoadRateComps ==
    /\ pc = "load"
    /\ IF ~workbook.ok
       THEN /\ Raise
            /\ UNCHANGED << to_approve, review_count >>
       ELSE /\ to_approve' = SelectRows(workbook.rows, 1, TRUE)
            /\ review_count' = Len(SelectRows(workbook.rows, 1, FALSE))
            /\ IF to_approve' = <<>>
               THEN Goto("finally")
               ELSE /\ pc' = "row"
                    /\ idx' = 1
                    /\ UNCHANGED << successes, failures, outcomes, error_text >>
    /\ UNCHANGED << inputVars, approved_count, failed_count, lookup_cache, meta,
                    netVars, tokenVars, mailVars >>

\* top of the loop body up to the cache check of lookup_invoice_by_wo
BeginRow ==
    /\ pc = "row"
    /\ idx <= Len(to_approve)
    /\ resp' = NoResp
    /\ token_resp' = NoResp
    /\ callReqs' = NoCalls
    /\ callFetches' = NoCalls
    /\ IF OrEmptyRaises(CurRow.trade)
       THEN Raise /\ UNCHANGED meta
       ELSE IF wo_key_of(CurRow) = <<>>
       THEN FailRow /\ UNCHANGED meta
       ELSE IF wo_key_of(CurRow) \in DOMAIN lookup_cache
       THEN IF lookup_cache[wo_key_of(CurRow)].found
            THEN Goto("approve") /\ meta' = lookup_cache[wo_key_of(CurRow)]
            ELSE FailRow /\ UNCHANGED meta
       ELSE Goto("lookup") /\ UNCHANGED meta
    /\ UNCHANGED << inputVars, countVars, to_approve, lookup_cache, token_box,
                    tokenRequests, requested, lookupCalls, lastReq, mailVars >>

\* lookup_invoice_by_wo after a response that is not a 401
LookupFinish(r) ==
    IF ~Ok(r)
    THEN CachePut(NoMeta) /\ FailRow /\ UNCHANGED meta
    ELSE IF r.body = "notjson"
    THEN Raise /\ UNCHANGED << lookup_cache, meta >>
    ELSE IF ~meta_of(r).found
    THEN CachePut(NoMeta) /\ FailRow /\ UNCHANGED meta
    ELSE CachePut(meta_of(r)) /\ meta' = meta_of(r) /\ Goto("approve")

\* lookup_invoice_by_wo: the first request
LookupRequest ==
    /\ pc = "lookup"
    /\ \E r \in LookupResponses :
         /\ Issue("lookup", r)
         /\ IF r.exc
            THEN CachePut(NoMeta) /\ FailRow /\ UNCHANGED meta
            ELSE IF r.status = 401
            THEN Goto("lookup_refresh") /\ UNCHANGED << lookup_cache, meta >>
            ELSE LookupFinish(r)
    /\ UNCHANGED << inputVars, countVars, to_approve, tokenVars, mailVars >>

\* lookup_invoice_by_wo: the token fetch after a 401
LookupRefresh ==
    /\ pc = "lookup_refresh"
    /\ \E t \in TokenResponses :
         /\ FetchToken(t)
         /\ callFetches' = [callFetches EXCEPT !.lookup = @ + 1]
         /\ IF get_access_token(t) = "token"
            THEN Goto("lookup_retry") /\ UNCHANGED lookup_cache
            ELSE IF get_access_token(t) = "RequestException"
            THEN CachePut(NoMeta) /\ FailRow
            ELSE Raise /\ UNCHANGED lookup_cache
    /\ UNCHANGED << inputVars, countVars, to_approve, meta, netVars, mailVars >>

\* the re-issued request, with a 401 sent back to the token fetch
LookupRetry_again ==
    /\ pc = "lookup_retry"
    /\ \E r \in LookupResponses :
         /\ Issue("lookup", r)
         /\ IF r.exc
            THEN CachePut(NoMeta) /\ FailRow /\ UNCHANGED meta
            ELSE IF r.status = 401
            THEN Goto("lookup_refresh") /\ UNCHANGED << lookup_cache, meta >>
            ELSE LookupFinish(r)
    /\ UNCHANGED << inputVars, countVars, to_approve, tokenVars, mailVars >>

\* lookup_invoice_by_wo: the request re-issued after the token fetch
LookupRetry ==
    /\ pc = "lookup_retry"
    /\ \E r \in LookupResponses :
         /\ Issue("lookup", r)
         /\ IF r.exc \/ r.status = 401
            THEN CachePut(NoMeta) /\ FailRow /\ UNCHANGED meta
            ELSE LookupFinish(r)
    /\ UNCHANGED << inputVars, countVars, to_approve, tokenVars, mailVars >>

\* approve_invoice after a response that is not a 401, and the count
ApproveFinish(r) == IF approve_result(r) THEN SucceedRow ELSE FailRow

\* approve_invoice: the parameters and the first request
ApproveRequest ==
    /\ pc = "approve"
    /\ IF OrEmptyRaises(CurRow.category)
       THEN Raise /\ UNCHANGED netVars
       ELSE \E r \in ApproveResponses :
              /\ Issue("approve", r)
              /\ IF r.exc
                 THEN FailRow
                 ELSE IF r.status = 401
                 THEN Goto("approve_refresh")
                 ELSE ApproveFinish(r)
    /\ UNCHANGED << inputVars, countVars, to_approve, lookup_cache, meta, tokenVars,
                    mailVars >>

\* approve_invoice: the token fetch after a 401
ApproveRefresh ==
    /\ pc = "approve_refresh"
    /\ \E t \in TokenResponses :
         /\ FetchToken(t)
         /\ callFetches' = [callFetches EXCEPT !.approve = @ + 1]
         /\ IF get_access_token(t) = "token"
            THEN Goto("approve_retry")
            ELSE IF get_access_token(t) = "RequestException"
            THEN FailRow
            ELSE Raise
    /\ UNCHANGED << inputVars, countVars, to_approve, lookup_cache, meta, netVars,
                    mailVars >>

\* approve_invoice: the request re-issued after the token fetch
ApproveRetry ==
    /\ pc = "approve_retry"
    /\ \E r \in ApproveResponses :
         /\ Issue("approve", r)
         /\ IF r.exc \/ r.status = 401 THEN FailRow ELSE ApproveFinish(r)
    /\ UNCHANGED << inputVars, countVars, to_approve, lookup_cache, meta, tokenVars,
                    mailVars >>

\* after the loop: the counters are copied to the reported counts
LoopEnd ==
    /\ pc = "row"
    /\ idx > Len(to_approve)
    /\ approved_count' = successes
    /\ failed_count' = failures
    /\ Goto("finally")
    /\ UNCHANGED << inputVars, review_count, to_approve, lookup_cache, meta, netVars,
                    tokenVars, mailVars >>

\* the finally block: send_status_email
SendStatusEmail ==
    /\ pc = "finally"
    /\ emailCalls' = emailCalls + 1
    /\ reported' = [approved |-> approved_count, failed |-> failed_count,
                    review |-> review_count, error |-> error_text]
    /\ emailsOut' = IF gmail_address THEN emailsOut + 1 ELSE emailsOut
    /\ Goto("done")
    /\ UNCHANGED << inputVars, countVars, to_approve, lookup_cache, meta, netVars,
                    tokenVars >>

Next ==
    \/ GetInitialToken
    \/ LoadRateComps
    \/ BeginRow
    \/ LookupRequest
    \/ LookupRefresh
    \/ LookupRetry
    \/ ApproveRequest
    \/ ApproveRefresh
    \/ ApproveRetry
    \/ LoopEnd
    \/ SendStatusEmail

Spec == Init /\ [][Next]_vars

(* --------------------------- decide_approval -------------------------- *)
\* decide_approval of build_rate_comps
decide_approval_le(diff) ==
    IF diff.nan THEN "Review"
    ELSE IF Abs(diff.v) <= 6 * Cent THEN "Approved"
    ELSE IF diff.v < 0 /\ diff.v >= -5 * Scale THEN "Approved"
    ELSE "Review"

decide_approval(diff) ==
    IF diff.nan THEN "Review"
    ELSE IF Abs(diff.v) < 6 * Cent THEN "Approved"
    ELSE IF diff.v < 0 /\ diff.v >= -5 * Scale THEN "Approved"
    ELSE "Review"

Thresholds == { -5 * Scale, -6 * Cent, 0, 6 * Cent }

DiffValues ==
    { c * Cent : c \in -MaxCents..MaxCents }
      \cup { c * Scale : c \in -MaxCents..MaxCents }
      \cup { t + e : t \in Thresholds, e \in -Fine..Fine }

InitDecide ==
    /\ d_in \in { Num(v) : v \in DiffValues } \cup { NaN }
    /\ d_out = "none"
    /\ workbook = [ok |-> FALSE, rows |-> <<>>]
    /\ gmail_address = FALSE
    /\ ApprovalStart
    /\ RateCompsIdle
    /\ FindIdle
    /\ MainIdle

\* rate_comps_df["Rate Difference"].apply(decide_approval), one value
Decide ==
    /\ d_out = "none"
    /\ d_out' = decide_approval(d_in)
    /\ UNCHANGED << d_in, workbook, gmail_address, rcVars, countVars, rowVars,
                    tokenVars, netVars, mailVars, to_approve, lookup_cache, meta,
                    findVars, mainVars >>

NextDecide == Decide

SpecDecide == InitDecide /\ [][NextDecide]_vars

\* C1: decide_approval(d) is Approved if and only if |d| < 0.06 or
\* -5.00 <= d < 0, Review otherwise, and Review for a missing d; so 0.06 gives
\* Review, 0.05999 Approved, 0 Approved, -5.00 Approved and -5.01 Review.
C1_DecideApproval ==
    d_out # "none" =>
      /\ d_out \in {"Approved", "Review"}
      /\ d_in.nan => d_out = "Review"
      /\ ~d_in.nan =>
           (d_out = "Approved" <=>
              (Abs(d_in.v) < 6 * Cent \/ (-5 * Scale <= d_in.v /\ d_in.v < 0)))
      /\ d_in = Num(6 * Cent) => d_out = "Review"
      /\ d_in = Num(6 * Cent - 1) => d_out = "Approved"
      /\ d_in = Num(0) => d_out = "Approved"
      /\ d_in = Num(-5 * Scale) => d_out = "Approved"
      /\ d_in = Num(-501 * Cent) => d_out = "Review"

\* the boundary 0.06 has been decided
C1_Witness == d_in = Num(6 * Cent) /\ d_out = "Review"

(* --------------------------- build_rate_comps ------------------------- *)
Digits == <<"0", "1", "2", "3", "4", "5", "6", "7", "8", "9">>
IsDigit(c) == c \in { Digits[i] : i \in 1..10 }
DigitValue(c) ==
    CASE c = "0" -> 0 [] c = "1" -> 1 [] c = "2" -> 2 [] c = "3" -> 3 [] c = "4" -> 4
      [] c = "5" -> 5 [] c = "6" -> 6 [] c = "7" -> 7 [] c = "8" -> 8 [] c = "9" -> 9

RECURSIVE DigitsToInt(_)
DigitsToInt(s) ==
    IF s = <<>> THEN 0
    ELSE 10 * DigitsToInt(SubSeq(s, 1, Len(s) - 1)) + DigitValue(s[Len(s)])

RECURSIVE IntToDigits(_)
IntToDigits(n) ==
    IF n < 10 THEN <<Digits[n + 1]>>
    ELSE IntToDigits(n \div 10) \o <<Digits[(n % 10) + 1]>>

\* the digits of n, left-padded with zeros to k characters
RECURSIVE ZeroPad(_, _)
ZeroPad(s, k) == IF Len(s) >= k THEN s ELSE ZeroPad(<<"0">> \o s, k)

\* str(x) of a number: sign, whole part, point, five decimals
FormatNumber(v) ==
    (IF v < 0 THEN <<"-">> ELSE <<>>)
      \o IntToDigits(Abs(v) \div Scale) \o <<".">>
      \o ZeroPad(IntToDigits(Abs(v) % Scale), 5)

\* .str.replace(",", "", regex=False)
RECURSIVE RemoveCommas(_)
RemoveCommas(s) ==
    IF s = <<>> THEN <<>>
    ELSE IF Head(s) = "," THEN RemoveCommas(Tail(s))
    ELSE <<Head(s)>> \o RemoveCommas(Tail(s))

\* position of the first "." of s, or 0
RECURSIVE PointAt(_, _)
PointAt(s, i) ==
    IF i > Len(s) THEN 0 ELSE IF s[i] = "." THEN i ELSE PointAt(s, i + 1)

AllDigits(s) == \A i \in 1..Len(s) : IsDigit(s[i])

\* the decimals of a number as units: right-padded with zeros to five digits
RECURSIVE FracUnits(_)
FracUnits(s) == IF Len(s) >= 5 THEN DigitsToInt(s) ELSE FracUnits(s \o <<"0">>)

\* an unsigned decimal literal: digits, with at most one point, at least one digit
ParseUnsigned(s) ==
    LET p == PointAt(s, 1)
        whole == IF p = 0 THEN s ELSE SubSeq(s, 1, p - 1)
        frac == IF p = 0 THEN <<>> ELSE SubSeq(s, p + 1, Len(s))
    IN  IF AllDigits(whole) /\ AllDigits(frac) /\ Len(whole) + Len(frac) > 0
           /\ Len(frac) <= 5
        THEN Num(DigitsToInt(whole) * Scale + FracUnits(frac))
        ELSE NaN

\* pd.to_numeric(text, errors="coerce") on text of digits, signs, points and
\* other characters: a decimal literal parses, anything else becomes NaN
to_numeric(s) ==
    IF s # <<>> /\ Head(s) = "-"
    THEN LET u == ParseUnsigned(Tail(s)) IN IF u.nan THEN NaN ELSE Num(-u.v)
    ELSE ParseUnsigned(s)

\* a cell of a numeric column of the invoice sheet: a number, text or empty
NumberCell(v) == [k |-> "num", s |-> <<>>, v |-> v]
TextCell(s) == [k |-> "txt", s |-> s, v |-> 0]
EmptyCell == [k |-> "nan", s |-> <<>>, v |-> 0]

\* .astype(str) of such a cell
AsStr(cell) ==
    IF cell.k = "num" THEN FormatNumber(cell.v)
    ELSE IF cell.k = "txt" THEN cell.s
    ELSE <<"n", "a", "n">>

\* the "Clean Inv.Total" step: remove commas, cast to numeric
clean_numeric(cell) == to_numeric(RemoveCommas(AsStr(cell)))

\* the first run of digits of the "Center #" text, as Location ID; NaN if none
RECURSIVE FirstDigitRun(_, _)
FirstDigitRun(s, acc) ==
    IF s = <<>> THEN acc
    ELSE IF IsDigit(Head(s)) THEN FirstDigitRun(Tail(s), acc \o <<Head(s)>>)
    ELSE IF acc # <<>> THEN acc
    ELSE FirstDigitRun(Tail(s), acc)

location_id_of(center) ==
    LET extracted == FirstDigitRun(center, <<>>)
    IN  IF extracted = <<>> THEN NaN ELSE Num(DigitsToInt(extracted))

\* the seasonal rate spread over the billing months whenever both are present,
\* whatever the monthly rate
contracted_rate_seasonal_first(c) ==
    IF ~c.seasonal.nan /\ ~c.months.nan THEN Num(c.seasonal.v \div c.months.v)
    ELSE c.monthly

\* land_df["Contracted Rate"] of one contract row
contracted_rate_of(c) ==
    IF ~c.monthly.nan THEN c.monthly
    ELSE IF ~c.seasonal.nan /\ ~c.months.nan THEN Num(c.seasonal.v \div c.months.v)
    ELSE NaN

\* rate_map: set_index("Location ID")["Contracted Rate"].to_dict(); a later
\* row of the same Location ID replaces an earlier one
RECURSIVE rate_map_of(_)
rate_map_of(land) ==
    IF land = <<>> THEN <<>>
    ELSE LET c == land[Len(land)]
             before == rate_map_of(SubSeq(land, 1, Len(land) - 1))
             id == location_id_of(c.center)
         IN  IF id.nan THEN before ELSE (id.v :> contracted_rate_of(c)) @@ before

\* a location without a rate taken as a rate of 0
lookup_rate_zero(rm, loc) == IF loc \in DOMAIN rm /\ ~rm[loc].nan THEN rm[loc] ELSE Num(0)

\* rate_comps_df["Location ID"].map(rate_map), one line
lookup_rate(rm, loc) == IF loc \in DOMAIN rm THEN rm[loc] ELSE NaN

\* Inv.Total - Contracted Rate on pandas numbers: NaN if either is NaN
rate_difference_zero(total, rate) ==
    Num((IF total.nan THEN 0 ELSE total.v) - (IF rate.nan THEN 0 ELSE rate.v))

rate_difference(total, rate) ==
    IF total.nan \/ rate.nan THEN NaN ELSE Num(total.v - rate.v)

\* the Rate_Comps row of one invoice line
rate_comps_row(rm, line) ==
    LET total == clean_numeric(line.total)
        rate == lookup_rate(rm, line.loc)
        diff == rate_difference(total, rate)
    IN  [loc |-> line.loc, total |-> total, rate |-> rate, diff |-> diff,
         status |-> decide_approval(diff)]

\* only the lines whose Location ID has a contract row (an inner join)
RECURSIVE rate_comps_inner(_, _)
rate_comps_inner(rm, inv_df) ==
    IF inv_df = <<>> THEN <<>>
    ELSE IF Head(inv_df).loc \in DOMAIN rm
         THEN <<rate_comps_row(rm, Head(inv_df))>> \o rate_comps_inner(rm, Tail(inv_df))
         ELSE rate_comps_inner(rm, Tail(inv_df))

\* rate_comps_df: the selected columns of every invoice line, in sheet order,
\* with the columns computed from them
rate_comps_of(rm, inv_df) ==
    [i \in 1..Len(inv_df) |-> rate_comps_row(rm, inv_df[i])]

\* index of the sheet called name, or 0
RECURSIVE SheetAt(_, _, _)
SheetAt(sheets, name, i) ==
    IF i > Len(sheets) THEN 0
    ELSE IF sheets[i].name = name THEN i
    ELSE SheetAt(sheets, name, i + 1)

\* every write adds another sheet
write_sheet_new(sheets, sheet) == Append(sheets, sheet)

\* ExcelWriter(mode="a", if_sheet_exists="replace") and to_excel
write_sheet(sheets, sheet) ==
    IF SheetAt(sheets, sheet.name, 1) = 0 THEN Append(sheets, sheet)
    ELSE [sheets EXCEPT ![SheetAt(sheets, sheet.name, 1)] = sheet]

S_1000_06 == <<"1", ",", "0", "0", "0", ".", "0", "6">>
S_495 == <<"4", "9", "5">>
S_NA == <<"N", "/", "A">>
S_KC100 == <<"K", "C", " ", "1", "0", "0">>
S_100 == <<"1", "0", "0">>
S_200A == <<"2", "0", "0", "-", "7">>
S_300 == <<"3", "0", "0">>
S_400 == <<"#", "4", "0", "0">>
S_HQ == <<"H", "Q">>

ContractRow(center, monthly, seasonal, months) ==
    [center |-> center, monthly |-> monthly, seasonal |-> seasonal, months |-> months]

ContractRowChoices ==
    { ContractRow(S_KC100, Num(1000 * Scale), NaN, NaN),
      ContractRow(S_100, Num(995 * Scale), Num(6000 * Scale), Num(12)),
      ContractRow(S_200A, NaN, Num(6000 * Scale), Num(12)),
      ContractRow(S_300, NaN, Num(6000 * Scale), NaN),
      ContractRow(S_400, Num(0), NaN, NaN),
      ContractRow(S_HQ, Num(1000 * Scale), NaN, NaN) }

InvoiceLine(loc, total) == [loc |-> loc, total |-> total]

InvoiceLineChoices ==
    { InvoiceLine(100, TextCell(S_1000_06)),
      InvoiceLine(200, TextCell(S_495)),
      InvoiceLine(300, NumberCell(99499 * Cent)),
      InvoiceLine(400, TextCell(S_NA)),
      InvoiceLine(500, NumberCell(0)),
      InvoiceLine(100, EmptyCell) }

ContractSheets == UNION { [1..n -> ContractRowChoices] : n \in 0..MaxContractRows }
InvoiceSheets == UNION { [1..n -> InvoiceLineChoices] : n \in 0..MaxLines }

Sheet(name, cols_ok, rows) == [name |-> name, cols_ok |-> cols_ok, rows |-> rows]

\* the workbook convert_csv_to_xlsx made: one sheet, the invoice report, with
\* the columns build_rate_comps needs or without one of them
InitRateComps ==
    /\ land_df \in ContractSheets
    /\ wb_sheets \in
         { <<Sheet("Invoice_Report", TRUE, rows)>> : rows \in InvoiceSheets }
           \cup { <<Sheet("Invoice_Report", FALSE, <<>>)>> }
    /\ contracted_rate = <<>>
    /\ rc_runs = 0
    /\ rc_error = FALSE
    /\ workbook = [ok |-> FALSE, rows |-> <<>>]
    /\ gmail_address = FALSE
    /\ ApprovalStart
    /\ DecideIdle
    /\ FindIdle
    /\ MainIdle

\* build_rate_comps(invoice_path, contract_path), the call itself
build_rate_comps_call ==
    /\ rc_runs < MaxRuns
    /\ ~rc_error
    /\ rc_runs' = rc_runs + 1
    /\ contracted_rate' = [j \in DOMAIN land_df |-> contracted_rate_of(land_df[j])]
    /\ IF ~wb_sheets[1].cols_ok
       THEN rc_error' = TRUE /\ UNCHANGED wb_sheets
       ELSE LET inv_df == wb_sheets[1].rows
                rate_map == rate_map_of(land_df)
                rate_comps_df == rate_comps_of(rate_map, inv_df)
            IN  /\ rc_error' = FALSE
                /\ wb_sheets' = write_sheet(wb_sheets, Sheet("Rate_Comps", TRUE, rate_comps_df))
    /\ UNCHANGED << land_df, decideVars, workbook, gmail_address, countVars, rowVars,
                    tokenVars, netVars, mailVars, to_approve, lookup_cache, meta,
                    findVars >>

\* build_rate_comps run on its own (python rate_analysis.py)
build_rate_comps == build_rate_comps_call /\ UNCHANGED mainVars

NextRateComps == build_rate_comps

SpecRateComps == InitRateComps /\ [][NextRateComps]_vars

\* the Rate_Comps sheet of the workbook, once written
RateCompsRows ==
    IF SheetAt(wb_sheets, "Rate_Comps", 1) = 0 THEN <<>>
    ELSE wb_sheets[SheetAt(wb_sheets, "Rate_Comps", 1)].rows

\* C10: every Rate_Comps row has Rate Difference = Inv.Total - Contracted Rate
\* when the normalized total and the looked-up rate are both present, and a
\* missing Rate Difference in every other case.
C10_RateDifference ==
    \A i \in 1..Len(RateCompsRows) :
      LET r == RateCompsRows[i] IN
        /\ (~r.total.nan /\ ~r.rate.nan) => (~r.diff.nan /\ r.diff.v = r.total.v - r.rate.v)
        /\ (r.total.nan \/ r.rate.nan) => r.diff.nan

\* a line with both operands (495 against 6000 / 12) and a line whose location
\* has no contract row
C10_Witness ==
    /\ Len(RateCompsRows) = 2
    /\ RateCompsRows[1].total = Num(495 * Scale)
    /\ RateCompsRows[1].rate = Num(500 * Scale)
    /\ RateCompsRows[1].diff = Num(-5 * Scale)
    /\ RateCompsRows[2].loc = 500
    /\ ~RateCompsRows[2].total.nan /\ RateCompsRows[2].rate.nan /\ RateCompsRows[2].diff.nan

\* the contract row that gives location loc its rate: the last row of the
\* contract table whose Center # holds that number
IsRateRowOf(j, loc) ==
    /\ j \in DOMAIN land_df
    /\ location_id_of(land_df[j].center) = Num(loc)
    /\ \A k \in DOMAIN land_df :
         location_id_of(land_df[k].center) = Num(loc) => k <= j

\* no contracted rate for loc: no contract row of that location, or the row
\* has neither a monthly rate nor a seasonal rate with billing months
NoContractedRate(loc) ==
    \A j \in DOMAIN land_df :
      IsRateRowOf(j, loc) =>
        (land_df[j].monthly.nan /\ (land_df[j].seasonal.nan \/ land_df[j].months.nan))

\* the invoice total of the cell is not a number: empty, or text that is not a
\* decimal literal once the commas are removed
Unparsable(cell) ==
    \/ cell.k = "nan"
    \/ cell.k = "txt" /\ to_numeric(RemoveCommas(cell.s)).nan

\* C11: an invoice line whose location has no contracted rate (absent from the
\* contract table, or rate missing) or whose invoice total cannot be parsed
\* gets Approval.Status Review; the missing operand is not taken as zero, so
\* the line is Review also when the other operand is 0.
C11_MissingIsReview ==
    (rc_runs > 0 /\ ~rc_error) =>
      /\ Len(RateCompsRows) = Len(wb_sheets[1].rows)
      /\ \A i \in DOMAIN wb_sheets[1].rows :
           LET line == wb_sheets[1].rows[i] IN
             (NoContractedRate(line.loc) \/ Unparsable(line.total))
               => /\ RateCompsRows[i].status = "Review"
                  /\ RateCompsRows[i].diff.nan

\* an unparsable total against a contracted rate of 0, and a total of 0 for a
\* location absent from the contract table: both Review
C11_Witness ==
    /\ rc_runs > 0
    /\ Len(RateCompsRows) = 2
    /\ wb_sheets[1].rows[1] = InvoiceLine(400, TextCell(S_NA))
    /\ ~NoContractedRate(400)
    /\ RateCompsRows[1].rate = Num(0)
    /\ RateCompsRows[1].status = "Review"
    /\ wb_sheets[1].rows[2] = InvoiceLine(500, NumberCell(0))
    /\ NoContractedRate(500)
    /\ RateCompsRows[2].total = Num(0)
    /\ RateCompsRows[2].status = "Review"

\* C12: for each contract row the contracted rate is the monthly rate when it
\* is present; otherwise the seasonal rate divided by the billing months when
\* both are present; otherwise missing. Monthly 1000 with no seasonal rate
\* gives 1000; no monthly rate, seasonal 6000 over 12 months gives 500; neither
\* gives missing.
C12_ContractedRate ==
    rc_runs > 0 =>
      /\ DOMAIN contracted_rate = DOMAIN land_df
      /\ \A j \in DOMAIN land_df :
           LET c == land_df[j]
               rate == contracted_rate[j]
           IN  /\ ~c.monthly.nan => rate = c.monthly
               /\ (c.monthly.nan /\ ~c.seasonal.nan /\ ~c.months.nan)
                    => (~rate.nan /\ rate.v * c.months.v = c.seasonal.v)
               /\ (c.monthly.nan /\ (c.seasonal.nan \/ c.months.nan)) => rate.nan
               /\ (c.monthly = Num(1000 * Scale) /\ c.seasonal.nan)
                    => rate = Num(1000 * Scale)
               /\ (c.monthly.nan /\ c.seasonal = Num(6000 * Scale) /\ c.months = Num(12))
                    => rate = Num(500 * Scale)

\* a row with both a monthly and a seasonal rate keeps the monthly rate, and a
\* row with only a seasonal rate and its months gets the quotient
C12_Witness ==
    /\ rc_runs > 0
    /\ Len(land_df) = 2
    /\ ~land_df[1].monthly.nan /\ ~land_df[1].seasonal.nan /\ ~land_df[1].months.nan
    /\ contracted_rate[1] = Num(995 * Scale)
    /\ land_df[2].monthly.nan
    /\ contracted_rate[2] = Num(500 * Scale)

\* C13: the Rate_Comps sheet has exactly one row per invoice line, in the
\* order of the invoice sheet, whatever the contract table holds: row i carries
\* the Location ID and the normalized total of line i, also for a line with no
\* matching contract rate.
C13_OneRowPerLine ==
    (rc_runs > 0 /\ ~rc_error) =>
      /\ Len(RateCompsRows) = Len(wb_sheets[1].rows)
      /\ \A i \in DOMAIN wb_sheets[1].rows :
           /\ RateCompsRows[i].loc = wb_sheets[1].rows[i].loc
           /\ RateCompsRows[i].total = clean_numeric(wb_sheets[1].rows[i].total)

\* a line of a location absent from the contract table, kept ahead of a line
\* of a location that has a rate
C13_Witness ==
    /\ rc_runs > 0
    /\ Len(RateCompsRows) = 2
    /\ NoContractedRate(500)
    /\ wb_sheets[1].rows[1].loc = 500
    /\ RateCompsRows[1].loc = 500
    /\ RateCompsRows[1].rate.nan
    /\ RateCompsRows[2].loc = 200
    /\ ~RateCompsRows[2].rate.nan

\* C14: a run of build_rate_comps on a workbook that already holds the
\* Rate_Comps sheet of an earlier run leaves the same Rate_Comps rows: it reads
\* the invoice sheet, which stays the first sheet and is never rewritten, and
\* it replaces the Rate_Comps sheet, so the workbook keeps two sheets.
C14_RerunSameRows ==
    /\ [][ (rc_runs >= 1 /\ rc_runs' = rc_runs + 1 /\ ~rc_error') =>
             /\ RateCompsRows' = RateCompsRows
             /\ RateCompsRows' = rate_comps_of(rate_map_of(land_df), wb_sheets[1].rows)
             /\ Len(wb_sheets') = Len(wb_sheets) ]_vars
    /\ [][ wb_sheets'[1] = wb_sheets[1] ]_vars
    /\ [](/\ wb_sheets[1].name = "Invoice_Report"
          /\ Len(wb_sheets) <= 2
          /\ (rc_runs > 0 /\ ~rc_error) =>
                (Len(wb_sheets) = 2 /\ wb_sheets[2].name = "Rate_Comps"))

\* the second run has been made on a workbook with two invoice lines
C14_Witness ==
    /\ rc_runs = 2
    /\ ~rc_error
    /\ Len(wb_sheets) = 2
    /\ Len(RateCompsRows) = 2
    /\ RateCompsRows[1].status = "Approved"
    /\ RateCompsRows[2].status = "Review"

(* --------------------------- find_invoice_csv ------------------------- *)
MaxFiles == 3

S_financial_details == <<"f", "i", "n", "a", "n", "c", "i", "a", "l", "_", "d", "e", "t", "a", "i", "l", "s">>
S_accounting_details == <<"a", "c", "c", "o", "u", "n", "t", "i", "n", "g", "_", "d", "e", "t", "a", "i", "l", "s">>
S_dot_csv == <<".", "c", "s", "v">>
PREFERRED_NAME == <<"i", "n", "v", "o", "i", "c", "e", "_", "r", "e", "p", "o", "r", "t", "_", "-", "_">> \o S_financial_details \o S_dot_csv
N_FINANCIAL_UPPER == <<"F", "I", "N", "A", "N", "C", "I", "A", "L", "_", "D", "E", "T", "A", "I", "L", "S", ".", "C", "S", "V">>
N_accounting == S_accounting_details \o S_dot_csv
N_other == <<"a", ".", "c", "s", "v">>
N_notes == S_financial_details \o <<".", "t", "x", "t">>

\* str.lower() on the letters of the file names
LowerChar(c) ==
    CASE c = "A" -> "a" [] c = "C" -> "c" [] c = "D" -> "d" [] c = "E" -> "e"
      [] c = "F" -> "f" [] c = "I" -> "i" [] c = "L" -> "l" [] c = "N" -> "n"
      [] c = "S" -> "s" [] c = "T" -> "t" [] c = "V" -> "v" [] OTHER -> c
Lower(s) == [i \in 1..Len(s) |-> LowerChar(s[i])]

\* s.endswith(suffix)
EndsWith(s, suffix) ==
    Len(s) >= Len(suffix) /\ SubSeq(s, Len(s) - Len(suffix) + 1, Len(s)) = suffix

\* sub in s
Contains(sub, s) ==
    \E i \in 1..(Len(s) - Len(sub) + 1) : SubSeq(s, i, i + Len(sub) - 1) = sub

File(dir, name) == [dir |-> dir, name |-> name]

\* the files of the extraction folder: "." is the folder itself, "sub" a folder
\* inside it
FileChoices ==
    { File(".", PREFERRED_NAME), File("sub", PREFERRED_NAME),
      File(".", N_FINANCIAL_UPPER), File(".", N_accounting),
      File(".", N_other), File(".", N_notes) }

\* os.walk is top-down: the files of the folder come before those of the
\* folders inside it; no file is listed twice
WalkOrders ==
    { w \in UNION { [1..n -> FileChoices] : n \in 0..MaxFiles } :
        /\ \A i, j \in DOMAIN w : i # j => w[i] # w[j]
        /\ \A i, j \in DOMAIN w : (w[i].dir = "sub" /\ w[j].dir = ".") => j < i }

\* candidates: the walked files whose name ends in .csv, whatever the case
RECURSIVE candidates_of(_)
candidates_of(files) ==
    IF files = <<>> THEN <<>>
    ELSE IF EndsWith(Lower(Head(files).name), S_dot_csv)
         THEN <<Head(files)>> \o candidates_of(Tail(files))
         ELSE candidates_of(Tail(files))

\* os.path.normpath(c) == os.path.normpath(os.path.join(extract_dir, PREFERRED_NAME))
IsPreferredExact(c) == c.dir = "." /\ c.name = PREFERRED_NAME

\* index of the first candidate from i on whose lowered basename contains sub, or 0
RECURSIVE FirstContaining(_, _, _)
FirstContaining(candidates, sub, i) ==
    IF i > Len(candidates) THEN 0
    ELSE IF Contains(sub, Lower(candidates[i].name)) THEN i
    ELSE FirstContaining(candidates, sub, i + 1)

\* find_invoice_csv(extract_dir): the file returned, or NoFile when it raises
\* FileNotFoundError
find_invoice_csv(files) ==
    LET candidates == candidates_of(files)
        financial == FirstContaining(candidates, S_financial_details, 1)
        accounting == FirstContaining(candidates, S_accounting_details, 1)
    IN  IF candidates = <<>> THEN NoFile
        ELSE IF \E i \in DOMAIN candidates : IsPreferredExact(candidates[i])
             THEN File(".", PREFERRED_NAME)
        ELSE IF financial # 0 THEN candidates[financial]
        ELSE IF accounting # 0 THEN candidates[accounting]
        ELSE candidates[1]

InitFind ==
    /\ walk_files \in WalkOrders
    /\ invoice_csv = NoFile
    /\ find_state = "idle"
    /\ workbook = [ok |-> FALSE, rows |-> <<>>]
    /\ gmail_address = FALSE
    /\ ApprovalStart
    /\ RateCompsIdle
    /\ DecideIdle
    /\ MainIdle

\* invoice_csv = find_invoice_csv(extract_root), the call itself
find_invoice_csv_call ==
    /\ find_state = "idle"
    /\ invoice_csv' = find_invoice_csv(walk_files)
    /\ find_state' = IF find_invoice_csv(walk_files) = NoFile
                     THEN "FileNotFoundError" ELSE "returned"
    /\ UNCHANGED << walk_files, workbook, gmail_address, rcVars, decideVars, countVars,
                    rowVars, tokenVars, netVars, mailVars, to_approve, lookup_cache,
                    meta >>

FindInvoiceCsv == find_invoice_csv_call /\ UNCHANGED mainVars

NextFind == FindInvoiceCsv

SpecFind == InitFind /\ [][NextFind]_vars

\* the walked files that are CSV files, and those of each kind of name
IsCsv(f) == EndsWith(Lower(f.name), S_dot_csv)
CsvFiles == { walk_files[i] : i \in { j \in DOMAIN walk_files : IsCsv(walk_files[j]) } }
NamedFinancial(f) == Contains(S_financial_details, Lower(f.name))
NamedAccounting(f) == Contains(S_accounting_details, Lower(f.name))
FirstCsv ==
    walk_files[CHOOSE i \in DOMAIN walk_files :
                 IsCsv(walk_files[i]) /\ \A j \in 1..(i - 1) : ~IsCsv(walk_files[j])]

\* C15 as stated: find_invoice_csv returns a CSV of the exact expected
\* filename if there is one, else one whose name contains financial_details,
\* else one whose name contains accounting_details, else the first CSV found;
\* a financial_details file wins over an accounting_details file wherever they
\* are listed; with no CSV at all it raises.
C15_SelectionPriority ==
    find_state # "idle" =>
      /\ CsvFiles = {} => (find_state = "FileNotFoundError" /\ invoice_csv = NoFile)
      /\ CsvFiles # {} =>
           /\ find_state = "returned"
           /\ invoice_csv \in CsvFiles
           /\ IF \E f \in CsvFiles : f.name = PREFERRED_NAME
              THEN invoice_csv.name = PREFERRED_NAME
              ELSE IF \E f \in CsvFiles : NamedFinancial(f)
              THEN NamedFinancial(invoice_csv)
              ELSE IF \E f \in CsvFiles : NamedAccounting(f)
              THEN NamedAccounting(invoice_csv)
              ELSE invoice_csv = FirstCsv

(* ---------------------------------- main ------------------------------ *)
\* what the pipeline can find outside the program: the credentials module
\* importable or not, Smartsheet answering 200 or not, GMAIL_APP_PASSWORD set
\* or not, files extracted from the ZIP or none
Envs ==
    [credentials : BOOLEAN, smartsheet : BOOLEAN, app_password : BOOLEAN,
     extracted : BOOLEAN]

\* the extraction folder: empty, without a CSV, or with the invoice report
MainWalks == { <<>>, <<File(".", N_notes)>>, <<File(".", PREFERRED_NAME)>> }

\* the pipeline before its first step; wb_sheets is the workbook that
\* convert_csv_to_xlsx makes of the CSV, workbook the Rate_Comps sheet as
\* load_rate_comps reads it back
InitMain ==
    /\ main_pc = "import"
    /\ env \in Envs
    /\ gmail_address \in BOOLEAN
    /\ walk_files \in MainWalks
    /\ invoice_csv = NoFile
    /\ find_state = "idle"
    /\ land_df = <<ContractRow(S_200A, NaN, Num(6000 * Scale), Num(12))>>
    /\ contracted_rate = <<>>
    /\ wb_sheets \in
         { <<Sheet("Invoice_Report", TRUE, <<InvoiceLine(200, TextCell(S_495))>>)>>,
           <<Sheet("Invoice_Report", FALSE, <<>>)>> }
    /\ rc_runs = 0
    /\ rc_error = FALSE
    /\ workbook \in Workbooks
    /\ ApprovalStart
    /\ DecideIdle

\* the module imports: import credentials, Cred.authcode
MainImport ==
    /\ main_pc = "import"
    /\ main_pc' = IF env.credentials THEN "contract" ELSE "exit"
    /\ UNCHANGED << env, workbook, gmail_address, rcVars, decideVars, findVars,
                    countVars, rowVars, tokenVars, netVars, mailVars, to_approve,
                    lookup_cache, meta >>

\* contract_path = download_contract_rates(): RuntimeError unless both
\* Smartsheet requests are answered 200
MainContract ==
    /\ main_pc = "contract"
    /\ main_pc' = IF env.smartsheet THEN "fetch" ELSE "exit"
    /\ UNCHANGED << env, workbook, gmail_address, rcVars, decideVars, findVars,
                    countVars, rowVars, tokenVars, netVars, mailVars, to_approve,
                    lookup_cache, meta >>

\* download_and_extract_invoices(): connect_imap raises without GMAIL_ADDRESS
\* or GMAIL_APP_PASSWORD; main exits when nothing was extracted
MainFetch ==
    /\ main_pc = "fetch"
    /\ main_pc' = IF gmail_address /\ env.app_password /\ env.extracted
                  THEN "find" ELSE "exit"
    /\ UNCHANGED << env, workbook, gmail_address, rcVars, decideVars, findVars,
                    countVars, rowVars, tokenVars, netVars, mailVars, to_approve,
                    lookup_cache, meta >>

\* the pipeline goes on to build Rate_Comps although no CSV was found
MainFind_goon ==
    /\ main_pc = "find"
    /\ find_invoice_csv_call
    /\ main_pc' = "build"
    /\ UNCHANGED env

\* invoice_csv = find_invoice_csv(extract_root); convert_csv_to_xlsx(invoice_csv)
MainFind ==
    /\ main_pc = "find"
    /\ find_invoice_csv_call
    /\ main_pc' = IF find_state' = "returned" THEN "build" ELSE "exit"
    /\ UNCHANGED env

\* build_rate_comps(invoice_xlsx, contract_path)
MainBuild ==
    /\ main_pc = "build"
    /\ build_rate_comps_call
    /\ main_pc' = IF rc_error' THEN "exit" ELSE "approvals"
    /\ UNCHANGED env

\* run_approvals(invoice_xlsx), step by step
MainApprovals == main_pc = "approvals" /\ Next

\* run_approvals has returned
MainReturn ==
    /\ main_pc = "approvals"
    /\ pc = "done"
    /\ main_pc' = "complete"
    /\ UNCHANGED << env, workbook, gmail_address, rcVars, decideVars, findVars,
                    countVars, rowVars, tokenVars, netVars, mailVars, to_approve,
                    lookup_cache, meta >>

NextMain ==
    \/ MainImport
    \/ MainContract
    \/ MainFetch
    \/ MainFind
    \/ MainBuild
    \/ MainApprovals
    \/ MainReturn

SpecMain == InitMain /\ [][NextMain]_vars

\* one of the fatal errors has occurred: main was ended by an exception or by
\* sys.exit, or run_approvals caught the error of its first token fetch or of
\* load_rate_comps
FatalError ==
    \/ main_pc = "exit"
    \/ /\ main_pc \in {"approvals", "complete"}
       /\ pc \in {"finally", "done"}
       /\ error_text
       /\ token_box = 0 \/ ~workbook.ok

\* C17: in a run with a fatal error (credentials missing, nothing extracted or
\* no CSV found, a required column absent from the invoice sheet or from the
\* Rate_Comps sheet) no lookup or approve request is ever issued and no row is
\* counted: the pipeline stops at the failing step, and a request is only
\* issued in a run in which none of these errors is present.
C17_FatalBeforeApprovals ==
    /\ FatalError =>
         /\ requested = {}
         /\ lastReq = NoReq
         /\ successes = 0 /\ failures = 0
         /\ approved_count = 0 /\ failed_count = 0
    /\ main_pc = "exit" => ~ENABLED NextMain
    /\ main_pc \notin {"approvals", "complete"} =>
         (pc = "start" /\ tokenRequests = 0 /\ emailCalls = 0)
    /\ main_pc \in {"approvals", "complete"} =>
         /\ env.credentials /\ env.smartsheet
         /\ gmail_address /\ env.app_password /\ env.extracted
         /\ find_state = "returned"
         /\ wb_sheets[1].cols_ok /\ ~rc_error
    /\ lastReq.kind # "none" => (workbook.ok /\ token_box > 0 /\ ~FatalError)

\* a pipeline that got as far as run_approvals, whose Rate_Comps sheet lacks a
\* column: the summary is sent, the run is over, nothing was requested
C17_Witness ==
    /\ main_pc = "complete"
    /\ ~workbook.ok
    /\ error_text
    /\ tokenRequests = 1
    /\ emailCalls = 1
    /\ requested = {}

(* ------------------- properties of the approval client ---------------- *)
Calls == {"lookup", "approve"}
RequestPc == [lookup |-> "lookup", approve |-> "approve"]
RefreshPc == [lookup |-> "lookup_refresh", approve |-> "approve_refresh"]
RetryPc == [lookup |-> "lookup_retry", approve |-> "approve_retry"]

\* this step received the response resp' to a request of call k
Answered(k) == pc \in {RequestPc[k], RetryPc[k]} /\ callReqs'[k] = callReqs[k] + 1

\* this step made the token fetch of call k, answered by token_resp'
Refreshed(k) == pc = RefreshPc[k] /\ callFetches'[k] = callFetches[k] + 1

\* this step counted the current row as failed and went on to the next row
RowFailed ==
    /\ failures' = failures + 1
    /\ successes' = successes
    /\ pc' = "row"
    /\ idx' = idx + 1
    /\ error_text' = error_text

\* this step counted the current row as approved and went on to the next row
RowApproved ==
    /\ successes' = successes + 1
    /\ failures' = failures
    /\ pc' = "row"
    /\ idx' = idx + 1
    /\ error_text' = error_text

CountOf(seq, x) == Cardinality({ i \in DOMAIN seq : seq[i] = x })

\* C2 as stated: after a 401 a replacement token is fetched and the request is
\* re-issued exactly once (so the step after the 401 always leads to the
\* re-issued request), and a 401 to the re-issued request fails the row with no
\* further attempt.
C2_Original ==
    [][ \A k \in Calls :
          /\ (Answered(k) /\ pc = RequestPc[k] /\ ~resp'.exc /\ resp'.status = 401)
               => pc' = RefreshPc[k]
          /\ pc = RefreshPc[k] => (Refreshed(k) /\ pc' = RetryPc[k])
          /\ pc = RetryPc[k] => (Answered(k) /\ pc' \notin {RefreshPc[k], RetryPc[k]})
          /\ (Answered(k) /\ pc = RetryPc[k] /\ ~resp'.exc /\ resp'.status = 401)
               => RowFailed ]_vars

\* C2, amended: after a 401 exactly one token fetch is attempted; when it
\* yields a token the request is re-issued exactly once; a 401 to the re-issued
\* request fails the row; no call issues a third request or a second fetch.
C2_AuthRetry ==
    /\ [](\A k \in Calls :
            /\ callReqs[k] <= 2
            /\ callFetches[k] <= 1
            /\ callReqs[k] = 2 => callFetches[k] = 1
            /\ pc = RefreshPc[k] => (callReqs[k] = 1 /\ callFetches[k] = 0)
            /\ pc = RetryPc[k] => (callReqs[k] = 1 /\ callFetches[k] = 1))
    /\ [][ \A k \in Calls :
             /\ (Answered(k) /\ pc = RequestPc[k] /\ ~resp'.exc /\ resp'.status = 401)
                  => pc' = RefreshPc[k]
             /\ pc = RefreshPc[k] =>
                  /\ Refreshed(k)
                  /\ get_access_token(token_resp') = "token"
                       => (pc' = RetryPc[k] /\ token_box' # token_box)
                  /\ pc' # RequestPc[k]
             /\ pc = RetryPc[k] => (Answered(k) /\ pc' \notin {RefreshPc[k], RetryPc[k]})
             /\ (Answered(k) /\ pc = RetryPc[k] /\ ~resp'.exc /\ resp'.status = 401)
                  => RowFailed ]_vars

\* a row failed by a second 401: two requests and one token fetch were made
C2_Witness ==
    /\ pc = "row"
    /\ callReqs.approve = 2
    /\ callFetches.approve = 1
    /\ resp = Resp(FALSE, 401, "none")
    /\ outcomes = <<"failed">>

\* C3: an approve request answered 403 "already had this status" counts the
\* row as approved and not as failed; any other 403 counts it as failed.
C3_AlreadyApproved ==
    [][ (Answered("approve") /\ ~resp'.exc /\ resp'.status = 403) =>
          IF resp'.body = "already had this status"
          THEN RowApproved /\ outcomes' = Append(outcomes, "approved")
          ELSE RowFailed /\ outcomes' = Append(outcomes, "failed") ]_vars

\* a row counted as approved on a 403 "already had this status"
C3_Witness ==
    /\ lastReq.kind = "approve"
    /\ resp = Resp(FALSE, 403, "already had this status")
    /\ successes = 1
    /\ failures = 0

\* C4 as stated: an approve request answered with any 2xx status counts the
\* row as approved.
C4_AnySuccessStatus ==
    [][ (Answered("approve") /\ ~resp'.exc /\ resp'.status \in 200..299)
          => RowApproved ]_vars

\* the sheet was loaded: the token was fetched and load_rate_comps returned
Loaded == pc \notin {"start", "load"} /\ token_box > 0 /\ workbook.ok

IsReview(i) == workbook.rows[i].status = Txt(S_Review)
IsApproved(i) == workbook.rows[i].status \in {Txt(S_Approved), Txt(S_approved_padded)}
InToApprove(i) == \E j \in DOMAIN to_approve : to_approve[j] = i

\* C5: no lookup and no approve request is ever issued for a row whose
\* Approval.Status is Review; such a row is not among the rows to approve, and
\* once the sheet is loaded it is counted in the needs-review count, which is
\* the number of rows that are not Approved and is what the summary reports.
C5_ReviewNeverSubmitted ==
    /\ \A i \in DOMAIN workbook.rows :
         IsReview(i) => (i \notin requested /\ ~InToApprove(i) /\ lastReq.row # i)
    /\ Loaded =>
         /\ review_count = Cardinality({ i \in DOMAIN workbook.rows : ~IsApproved(i) })
         /\ review_count >= Cardinality({ i \in DOMAIN workbook.rows : IsReview(i) })
         /\ \A j \in DOMAIN to_approve : IsApproved(to_approve[j])
         /\ successes + failures <= Len(to_approve)
    /\ (Loaded /\ pc = "done") => reported.review = review_count

\* a run over a Review row and an Approved row, ended: one request row, one
\* row counted as needing review
C5_Witness ==
    /\ pc = "done"
    /\ Len(workbook.rows) = 2
    /\ IsReview(1)
    /\ requested = {2}
    /\ reported.review = 1
    /\ reported.approved = 1

\* this step is one of the row-level failures: a lookup that finds no invoice
\* (blank work order, earlier miss remembered in the cache, empty answer),
\* a lookup or approval that raises a network error, an approval rejected with
\* an error status that is not the idempotent 403
RowLevelFailure ==
    \/ pc = "row" /\ idx <= Len(to_approve) /\ ~CurRow.trade.nan
         /\ (Strip(PyStr(CurRow.wo)) = <<>>
               \/ \E key \in DOMAIN lookup_cache :
                    key = Strip(PyStr(CurRow.wo)) /\ ~lookup_cache[key].found)
    \/ Answered("lookup") /\ resp'.exc
    \/ Answered("lookup") /\ ~resp'.exc /\ resp'.status = 200
         /\ resp'.body \in {"empty", "noid"}
    \/ Answered("lookup") /\ ~resp'.exc /\ resp'.status >= 400 /\ resp'.status # 401
    \/ Answered("approve") /\ resp'.exc
    \/ Answered("approve") /\ ~resp'.exc /\ resp'.status >= 400 /\ resp'.status # 401
         /\ ~(resp'.status = 403 /\ resp'.body = "already had this status")

\* C6: a row-level failure adds one to the failed counter, leaves the approved
\* counter alone and moves on to the next row without ending the run; while a
\* row is left the loop goes on, and a run that ends without an unhandled
\* error has processed every Approved row.
C6_RowFailureContinues ==
    /\ [][ RowLevelFailure => (RowFailed /\ outcomes' = Append(outcomes, "failed")) ]_vars
    /\ []((pc = "row" /\ idx <= Len(to_approve)) => ENABLED BeginRow)
    /\ []((pc = "done" /\ Loaded /\ ~error_text) => Len(outcomes) = Len(to_approve))

\* a row approved after the row before it failed on a network error
C6_Witness ==
    /\ pc = "done"
    /\ outcomes = <<"failed", "approved">>
    /\ Cardinality(requested) = 2
    /\ reported.failed = 1
    /\ reported.approved = 1

\* this step made a network call for the current row and the call failed: a
\* request that raised, or a token fetch that returned no token
NetworkCallFailed ==
    \/ \E k \in Calls : Answered(k) /\ resp'.exc
    \/ \E k \in Calls : Refreshed(k) /\ get_access_token(token_resp') # "token"

\* C7 as stated: a failed network call made while processing a row, the token
\* fetch after a 401 included, fails that row only and the run goes on.
C7_NetworkFailureIsRowFailure ==
    [][ NetworkCallFailed => RowFailed ]_vars

\* C8: send_status_email is called exactly once in every run, and not before
\* the run is over: a run that has not returned can always take a step, has
\* not called it yet, and a run that has returned has called it once.
C8_EmailOnce ==
    /\ pc = "done" => emailCalls = 1
    /\ pc # "done" => (emailCalls = 0 /\ ENABLED Next)
    /\ emailsOut <= emailCalls
    /\ pc = "done" => reported.error = error_text

\* a run ended by an unhandled error inside the row loop, summary sent
C8_Witness ==
    /\ pc = "done"
    /\ error_text
    /\ Len(outcomes) = 1
    /\ idx = 2
    /\ emailCalls = 1
    /\ emailsOut = 1

\* C9 as stated: the counts handed to send_status_email are those of the rows
\* processed, also when an unhandled error ended the run.
C9_ReportedCounts ==
    pc = "done" =>
      /\ reported.approved = CountOf(outcomes, "approved")
      /\ reported.failed = CountOf(outcomes, "failed")

\* C16 as stated: the outcome of an Approved row does not depend on the rows
\* processed before it, so a row gets in any run the outcome it gets when
\* processed alone: once the run is over every Approved row has been given an
\* outcome, except a row whose own processing raised the error that ended it.
C16_OutcomeIndependentOfOtherRows ==
    (pc = "done" /\ Loaded) =>
      \A j \in DOMAIN to_approve :
        \/ j <= Len(outcomes)
        \/ j = Len(outcomes) + 1 /\ error_text

\* this step begins a row whose work order key is already in the cache and
\* whose Trade cell lets the row reach the lookup
CachedLookup ==
    /\ pc = "row"
    /\ idx <= Len(to_approve)
    /\ ~CurRow.trade.nan
    /\ Strip(PyStr(CurRow.wo)) \in DOMAIN lookup_cache

\* C18: within one run at most one lookup goes to the network per distinct
\* non-empty work order key (its 401 retry is part of it) and none for an empty
\* key; a cached result, found or negative, is never overwritten or removed; a
\* lookup of a cached key issues no request, and fails the row when the cached
\* result is negative.
C18_OneLookupPerKey ==
    /\ [](/\ \A key \in DOMAIN lookupCalls : key # <<>> /\ lookupCalls[key] = 1
          /\ \A key \in DOMAIN lookup_cache : key \in DOMAIN lookupCalls
          /\ \A k \in Calls : callReqs[k] <= 2)
    /\ [][ \A key \in DOMAIN lookup_cache :
             key \in DOMAIN lookup_cache' /\ lookup_cache'[key] = lookup_cache[key] ]_vars
    /\ [][ CachedLookup =>
             /\ requested' = requested /\ lookupCalls' = lookupCalls
             /\ pc' # "lookup"
             /\ IF lookup_cache[Strip(PyStr(CurRow.wo))].found
                THEN pc' = "approve" /\ meta' = lookup_cache[Strip(PyStr(CurRow.wo))]
                ELSE RowFailed /\ outcomes' = Append(outcomes, "failed") ]_vars

\* two rows of the same work order key ("101" and "101 "): the lookup of the
\* first found nothing, the second failed on the cached result with no request
C18_Witness ==
    /\ Len(to_approve) = 2
    /\ workbook.rows[1].wo = Txt(S_WO1)
    /\ workbook.rows[2].wo = Txt(S_WO1_padded)
    /\ outcomes = <<"failed", "failed">>
    /\ requested = {1}
    /\ lookupCalls = (S_WO1 :> 1)
    /\ ~lookup_cache[S_WO1].found

\* a blank Category cell: empty text, whitespace only, or an empty cell that
\* pandas reads back as NaN
BlankCategory(cell) == cell.nan \/ Strip(cell.s) = <<>>

\* C19 as stated: every approve request carries the row's category trimmed
\* and uppercased, or MAINTENANCE when the row's category is blank (empty,
\* whitespace only, or an empty cell read back as missing); approve_invoice
\* called for a row with a blank category issues its request with MAINTENANCE
\* and does not end the run.
C19_BlankCategoryDefault ==
    /\ [](lastReq.kind = "approve" =>
            lastReq.category =
              IF BlankCategory(workbook.rows[lastReq.row].category)
              THEN CATEGORY_FALLBACK
              ELSE Upper(Strip(workbook.rows[lastReq.row].category.s)))
    /\ [][ (pc = "approve" /\ BlankCategory(CurRow.category)) =>
             /\ Answered("approve")
             /\ lastReq'.category = CATEGORY_FALLBACK
             /\ error_text' = error_text
             /\ pc' # "finally" ]_vars

\* C20 as stated: the token is fetched lazily, so no token request has been
\* made in a run that has not yet issued, and is not about to issue, a lookup
\* or approve request; a run that issues no request fetches no token.
C20_LazyToken ==
    tokenRequests > 0 =>
      (lastReq.kind # "none" \/ pc \in {"lookup", "approve"})

\* this step is the token fetch that follows a 401 answer
FetchAfter401 ==
    /\ pc \in {"lookup_refresh", "approve_refresh"}
    /\ ~resp.exc
    /\ resp.status = 401

\* C20, amended: run_approvals fetches the token once at its start, before the
\* sheet is loaded and whether or not a request follows; a failed fetch ends
\* the run before the sheet is loaded; every request carries a token already
\* held; after the first fetch a token is requested, and the held token
\* replaced, only in response to a 401.
C20_TokenFetchedAtStart ==
    /\ [](/\ pc = "start" => (tokenRequests = 0 /\ token_box = 0)
          /\ pc # "start" => tokenRequests >= 1
          /\ (pc # "start" /\ token_box = 0) =>
               (pc \in {"finally", "done"} /\ error_text /\ to_approve = <<>>
                  /\ review_count = 0 /\ tokenRequests = 1)
          /\ lastReq.kind # "none" => lastReq.token > 0)
    /\ [][ tokenRequests' # tokenRequests =>
             /\ tokenRequests' = tokenRequests + 1
             /\ pc = "start" \/ FetchAfter401 ]_vars
    /\ [][ token_box' # token_box =>
             /\ tokenRequests' = tokenRequests + 1
             /\ (pc = "start" /\ token_box = 0) \/ FetchAfter401 ]_vars

\* a run over a sheet of two rows, neither of them Approved: it is over, no
\* request was issued, one token was fetched
C20_Witness ==
    /\ pc = "done"
    /\ workbook.ok
    /\ Len(workbook.rows) = 2
    /\ to_approve = <<>>
    /\ ~error_text
    /\ lastReq = NoReq
    /\ tokenRequests = 1
    /\ token_box = 1

\* run_approvals is past its try block and no unhandled error was caught
CompletedNormally == pc \in {"finally", "done"} /\ ~error_text

\* C21: when run_approvals completes without an unhandled error, approved +
\* failed + needs-review is the number of rows of the sheet: the needs-review
\* count is the number of rows that are not Approved, and approved + failed
\* the number of Approved rows; all the time successes + failures is the
\* number of Approved rows processed so far, and a step that changes a counter
\* adds one to exactly one of successes and failures, for one row.
C21_CountersPartitionRows ==
    /\ [](CompletedNormally =>
            /\ approved_count + failed_count + review_count = Len(workbook.rows)
            /\ review_count = Cardinality({ i \in DOMAIN workbook.rows : ~IsApproved(i) })
            /\ approved_count + failed_count = Len(to_approve)
            /\ approved_count = successes /\ failed_count = failures
            /\ pc = "done" =>
                 reported.approved + reported.failed + reported.review
                   = Len(workbook.rows))
    /\ [](/\ successes + failures = Len(outcomes)
          /\ idx > 0 => successes + failures = idx - 1
          /\ successes + failures <= Len(to_approve)
          /\ successes = CountOf(outcomes, "approved")
          /\ failures = CountOf(outcomes, "failed"))
    /\ [][ /\ successes' \in {successes, successes + 1}
           /\ failures' \in {failures, failures + 1}
           /\ ~(successes' # successes /\ failures' # failures)
           /\ (successes' # successes \/ failures' # failures) =>
                (idx' = idx + 1 /\ Len(outcomes') = Len(outcomes) + 1) ]_vars

\* a run over an Approved row that failed and a row that is not Approved,
\* completed without an unhandled error
C21_Witness ==
    /\ pc = "done"
    /\ ~error_text
    /\ Len(workbook.rows) = 2
    /\ Len(to_approve) = 1
    /\ approved_count = 0
    /\ failed_count = 1
    /\ review_count = 1

====
